---------------------------- MODULE Spec2Model ----------------------------
(***************************************************************************)
(* Party Planner CLI (party_planner.py): named contact lists kept as JSON  *)
(* files, a cache of the Mac Contacts snapshot, interactive search, and    *)
(* the per-contact confirm/edit/skip loop that sends the texts.            *)
(*                                                                         *)
(* Text is modelled as a sequence of one-character strings, so that        *)
(* str.strip, str.lower, str.split, the `in` substring test, int() and     *)
(* str.format are computed the way Python computes them.                   *)
(***************************************************************************)
EXTENDS Integers, Sequences, FiniteSets, TLC

(***************************************************************************)
(* Bounds of the model                                                     *)
(***************************************************************************)
\* the user adds contacts (menu choices 2 and 3) only while the list is shorter
\* than this
MaxContacts == 2

(***************************************************************************)
(* Python string operations                                                *)
(***************************************************************************)
LowerAlpha == <<"a","b","c","d","e","f","g","h","i","j","k","l","m","n","o","p","q","r","s","t","u","v","w","x","y","z">>

UpperAlpha == <<"A","B","C","D","E","F","G","H","I","J","K","L","M","N","O","P","Q","R","S","T","U","V","W","X","Y","Z">>

Digits == <<"0","1","2","3","4","5","6","7","8","9">>

IsSpace(c) == c \in {" ", "\n"}

IsDigit(c) == \E k \in 1..Len(Digits) : Digits[k] = c

DigitVal(c) == (CHOOSE k \in 1..Len(Digits) : Digits[k] = c) - 1

LowerChar(c) ==
    IF \E k \in 1..Len(UpperAlpha) : UpperAlpha[k] = c
    THEN LowerAlpha[CHOOSE k \in 1..Len(UpperAlpha) : UpperAlpha[k] = c]
    ELSE c

\* str.lower()
Lower(s) == [k \in 1..Len(s) |-> LowerChar(s[k])]

RECURSIVE LStrip(_)
LStrip(s) == IF s # <<>> /\ IsSpace(Head(s)) THEN LStrip(Tail(s)) ELSE s

RECURSIVE RStrip(_)
RStrip(s) ==
    IF s # <<>> /\ IsSpace(s[Len(s)]) THEN RStrip(SubSeq(s, 1, Len(s) - 1)) ELSE s

\* str.strip()
Strip(s) == RStrip(LStrip(s))

\* needle in hay
Contains(hay, needle) ==
    \E k \in 0..(Len(hay) - Len(needle)) : SubSeq(hay, k + 1, k + Len(needle)) = needle

\* str.replace(ch, "")
Remove(s, ch) == SelectSeq(s, LAMBDA c : c # ch)

\* str.isdigit()
IsDigitStr(s) == s # <<>> /\ \A k \in 1..Len(s) : IsDigit(s[k])

RECURSIVE SplitOnAcc(_, _, _)
SplitOnAcc(s, sep, cur) ==
    IF s = <<>> THEN <<cur>>
    ELSE IF Head(s) = sep THEN <<cur>> \o SplitOnAcc(Tail(s), sep, <<>>)
    ELSE SplitOnAcc(Tail(s), sep, Append(cur, Head(s)))

\* str.split(sep): empty fields are kept
SplitOn(s, sep) == SplitOnAcc(s, sep, <<>>)

RECURSIVE SplitWsAcc(_, _)
SplitWsAcc(s, cur) ==
    IF s = <<>> THEN (IF cur = <<>> THEN <<>> ELSE <<cur>>)
    ELSE IF IsSpace(Head(s))
         THEN (IF cur = <<>> THEN <<>> ELSE <<cur>>) \o SplitWsAcc(Tail(s), <<>>)
    ELSE SplitWsAcc(Tail(s), Append(cur, Head(s)))

\* str.split() without a separator: runs of whitespace, no empty words
SplitWs(s) == SplitWsAcc(s, <<>>)

RECURSIVE DigitsVal(_, _)
DigitsVal(s, acc) ==
    IF s = <<>> THEN acc ELSE DigitsVal(Tail(s), 10 * acc + DigitVal(Head(s)))

\* int(text): [ok |-> TRUE, val |-> n], or [ok |-> FALSE] for a ValueError
ParseInt(text) ==
    LET t == Strip(text)
        neg == t # <<>> /\ Head(t) = "-"
        body == IF t # <<>> /\ Head(t) \in {"-", "+"} THEN Tail(t) ELSE t
    IN IF IsDigitStr(body)
       THEN [ok |-> TRUE, val |-> IF neg THEN 0 - DigitsVal(body, 0) ELSE DigitsVal(body, 0)]
       ELSE [ok |-> FALSE]

CharRank(c) ==
    IF \E k \in 1..Len(LowerAlpha) : LowerAlpha[k] = c
    THEN CHOOSE k \in 1..Len(LowerAlpha) : LowerAlpha[k] = c
    ELSE 0

RECURSIVE StrLess(_, _)
StrLess(a, b) ==
    IF b = <<>> THEN FALSE
    ELSE IF a = <<>> THEN TRUE
    ELSE IF Head(a) = Head(b) THEN StrLess(Tail(a), Tail(b))
    ELSE CharRank(Head(a)) < CharRank(Head(b))

RECURSIVE SortedSeq(_)
\* sorted(names)
SortedSeq(S) ==
    IF S = {} THEN <<>>
    ELSE LET m == CHOOSE x \in S : \A y \in S \ {x} : StrLess(x, y)
         IN <<m>> \o SortedSeq(S \ {m})

(***************************************************************************)
(* Files on disk: the list files lists/<name>.json and the contacts cache  *)
(***************************************************************************)
Missing == [kind |-> "missing"]

\* a file that exists but that json.load rejects
Corrupt == [kind |-> "corrupt"]

\* json.dump({"contacts": contacts}, f, indent=2)
JsonContacts(contacts) == [kind |-> "json", contacts |-> contacts]

\* json.load(f) followed by data.get("contacts", [])
JsonGetContacts(file) == IF "contacts" \in DOMAIN file THEN file.contacts ELSE <<>>

\* load_list(name), reading the lists directory `files`
load_list(files, n) ==
    IF files[n].kind = "missing" THEN <<>>
    ELSE IF files[n].kind = "corrupt" THEN <<>>
    ELSE JsonGetContacts(files[n])

\* a save that opens the file for appending: the old entries survive
save_list_append(files, n, cs) ==
    [files EXCEPT ![n] = JsonContacts(load_list(files, n) \o cs)]

\* save_list(name, contacts): the lists directory after the write
save_list(files, n, cs) == [files EXCEPT ![n] = JsonContacts(cs)]

\* get_existing_lists(): the sorted names of the files present
get_existing_lists(files) == SortedSeq({n \in DOMAIN files : files[n].kind # "missing"})

\* load_cached_contacts(): [some |-> FALSE] is Python's None
load_cached_contacts(cacheFile) ==
    IF cacheFile.kind = "missing" THEN [some |-> FALSE]
    ELSE IF cacheFile.kind = "corrupt" THEN [some |-> FALSE]
    ELSE [some |-> TRUE, contacts |-> JsonGetContacts(cacheFile)]

\* save_contacts_cache(contacts)
save_contacts_cache(contacts) == JsonContacts(contacts)

(***************************************************************************)
(* Contacts Source Adapter                                                 *)
(***************************************************************************)
\* one line of osascript's output, as the loop body of fetch_contacts_from_mac
ParseLine(line) ==
    IF Contains(line, <<"|">>)
    THEN LET parts == SplitOn(line, "|")
             full_name == Strip(parts[1])
             first_name == IF full_name # <<>> THEN SplitWs(full_name)[1] ELSE <<>>
         IN IF Len(parts) >= 2
            THEN <<[name |-> full_name, first_name |-> first_name, phone |-> Strip(parts[2])]>>
            ELSE <<>>
    ELSE <<>>

RECURSIVE ParseLines(_)
ParseLines(ls) == IF ls = <<>> THEN <<>> ELSE ParseLine(Head(ls)) \o ParseLines(Tail(ls))

\* result.stdout.strip().split("\n") turned into contact records
ParseContacts(stdout) == ParseLines(SplitOn(Strip(stdout), "\n"))

\* fetch_contacts_from_mac(): what it returns, the cache file it leaves and
\* what it prints, for one run `res` of osascript
fetch_contacts_from_mac(cacheFile, res) ==
    IF res.rc # 0
    THEN [contacts |-> <<>>, cache |-> cacheFile, fetched |-> FALSE,
          out |-> <<"Syncing contacts", "Error loading contacts">>]
    ELSE LET cs == ParseContacts(res.stdout)
         IN [contacts |-> cs, cache |-> save_contacts_cache(cs), fetched |-> TRUE,
             out |-> <<"Syncing contacts", "Synced">>]

\* get_all_contacts that tests `if cached:`, so an empty snapshot is re-fetched
get_all_contacts_truthy(cacheFile, res, force_refresh) ==
    LET cached == load_cached_contacts(cacheFile)
    IN IF ~force_refresh /\ cached.some /\ cached.contacts # <<>>
       THEN [contacts |-> cached.contacts, cache |-> cacheFile, fetched |-> FALSE,
             out |-> <<"Using cached contacts">>]
       ELSE fetch_contacts_from_mac(cacheFile, res)

\* get_all_contacts(force_refresh)
get_all_contacts(cacheFile, res, force_refresh) ==
    LET cached == load_cached_contacts(cacheFile)
    IN IF ~force_refresh /\ cached.some
       THEN [contacts |-> cached.contacts, cache |-> cacheFile, fetched |-> FALSE,
             out |-> <<"Using cached contacts">>]
       ELSE fetch_contacts_from_mac(cacheFile, res)

(***************************************************************************)
(* Message Composer                                                        *)
(***************************************************************************)
FieldName == <<"n","a","m","e">>

FieldFirstName == <<"f","i","r","s","t","_","n","a","m","e">>

FieldPhone == <<"p","h","o","n","e">>

\* position of the first "}" of t, 0 if there is none
FirstClose(t) ==
    IF \E k \in 1..Len(t) : t[k] = "}"
    THEN CHOOSE k \in 1..Len(t) : t[k] = "}" /\ \A j \in 1..(k - 1) : t[j] # "}"
    ELSE 0

RECURSIVE FormatAcc(_, _, _)
\* str.format(**kw) with no positional arguments, left to right: "{{" and "}}"
\* are literal braces, "{}" and "{<digits>}" are positional (IndexError), a
\* named field is looked up in kw (KeyError), a lone brace is a ValueError.
\* Fields with an attribute, an index, a conversion or a format spec are not
\* modelled.
FormatAcc(t, kw, acc) ==
    IF t = <<>> THEN [kind |-> "ok", text |-> acc]
    ELSE IF Head(t) = "{"
    THEN IF Len(t) >= 2 /\ t[2] = "{"
         THEN FormatAcc(SubSeq(t, 3, Len(t)), kw, Append(acc, "{"))
         ELSE LET close == FirstClose(t)
                  field == SubSeq(t, 2, close - 1)
                  rest == SubSeq(t, close + 1, Len(t))
              IN IF close = 0 \/ Contains(field, <<"{">>) THEN [kind |-> "ValueError"]
                 ELSE IF field = <<>> \/ IsDigitStr(field) THEN [kind |-> "IndexError"]
                 ELSE IF field = FieldName THEN FormatAcc(rest, kw, acc \o kw.name)
                 ELSE IF field = FieldFirstName THEN FormatAcc(rest, kw, acc \o kw.first_name)
                 ELSE IF field = FieldPhone THEN FormatAcc(rest, kw, acc \o kw.phone)
                 ELSE [kind |-> "KeyError"]
    ELSE IF Head(t) = "}"
    THEN IF Len(t) >= 2 /\ t[2] = "}"
         THEN FormatAcc(SubSeq(t, 3, Len(t)), kw, Append(acc, "}"))
         ELSE [kind |-> "ValueError"]
    ELSE FormatAcc(Tail(t), kw, Append(acc, Head(t)))

\* template.format(name=..., first_name=..., phone=...)
Format(t, kw) == FormatAcc(t, kw, <<>>)

\* contact.get('first_name'), <<>> standing for a missing or empty value
GetFirstName(contact) ==
    IF "first_name" \in DOMAIN contact THEN contact.first_name ELSE <<>>

\* draft_message that greets with the contact's whole name
draft_message_fullname(template, contact) ==
    Format(template, [name |-> contact.name, first_name |-> contact.name,
                      phone |-> contact.phone])

\* draft_message(template, contact): [kind |-> "ok", text |-> message], or the
\* exception raised.  Python reads line 407 as
\*   (contact.get('first_name') or contact['name'].split()[0]) if contact['name'] else ""
draft_message(template, contact) ==
    IF contact.name # <<>>
    THEN IF GetFirstName(contact) # <<>>
         THEN Format(template, [name |-> GetFirstName(contact),
                                first_name |-> GetFirstName(contact),
                                phone |-> contact.phone])
         ELSE IF SplitWs(contact.name) = <<>> THEN [kind |-> "IndexError"]
         ELSE Format(template, [name |-> SplitWs(contact.name)[1],
                                first_name |-> SplitWs(contact.name)[1],
                                phone |-> contact.phone])
    ELSE Format(template, [name |-> <<>>, first_name |-> <<>>, phone |-> contact.phone])

(***************************************************************************)
(* What the user can type and what the outside world can answer            *)
(***************************************************************************)
\* the template offered by "Type '1' to use: ..."
DefaultTemplate == <<"H","e","y"," ","{","n","a","m","e","}","!"," ","P","a","r","t","y"," ","a","t"," ","m","y"," ","p","l","a","c","e"," ","F","r","i","d","a","y"," ","a","t"," ","8",","," ","y","o","u"," ","i","n","?">>

\* osascript's output for an address book of two people sharing a phone
\* number and one entry without a name
AddressBook == <<" ","A","n","n"," ","L","e","e","|","1","\n","a","n","n","a"," ","|","1","\n","|","3","\n">>

\* one run of osascript: a failure, no people with phones, the address book
MacResults == {[rc |-> 1], [rc |-> 0, stdout |-> <<>>], [rc |-> 0, stdout |-> AddressBook]}

ListNameInputs == {<<>>, <<"b","b","q">>, <<" ","g","a","l","a"," ">>}

ListNames == {Strip(r) : r \in ListNameInputs} \ {<<>>}

SelectInputs == {<<"N">>, <<"v">>, <<"1">>, <<" ","2">>, <<"3">>, <<"x">>}

ViewInputs == {<<"1">>, <<"9">>, <<"x">>}

OverwriteInputs == {<<"Y"," ">>, <<"n">>, <<>>}

QueryInputs == {<<>>, <<"l","i","s","t">>, <<"1",","," ","2">>, <<"A","N","N">>, <<"l","e","e"," ">>, <<"z","e","d">>}

DoneInputs == {<<"d","o","n","e">>, <<" ","D","o","n","e">>}

SyncInputs == {<<"s","y","n","c">>, <<"S","Y","N","C"," ">>}

SelectionInputs == {<<>>, <<"A">>, <<"1">>, <<"2">>, <<"1",",","1">>, <<"2",","," ","1">>, <<"0">>, <<"1",",","x">>, <<"9">>}

MenuInputs == {<<"1">>, <<" ","2">>, <<"3">>, <<"4">>, <<"5"," ">>, <<"6">>, <<"0">>, <<"x">>, <<>>}

ManualNameInputs == {<<>>, <<" ","C","y"," ","D","a","y"," ">>}

ManualPhoneInputs == {<<" ">>, <<"7"," ">>}

RemoveInputs == {<<"C">>, <<"1">>, <<" ","2">>, <<"3">>, <<"0">>, <<"x">>}

TemplateInputs == {<<>>, <<" ","1">>, <<"{","n","a","m","e","}",","," ","h","i"," ","{","n","a","m","e","}"," ">>, <<"{","p","h","o","n","e","}"," ","{","{","x","}","}"," ","{","d","a","t","e","}">>, <<"{","n","a","m","e","}"," ","{","}">>, <<"{","n","a","m","e","}"," ",":","}">>}

SendInputs == {<<>>, <<" ">>, <<"s">>, <<" ","S">>, <<"e">>, <<"E">>, <<"n">>, <<"q">>, <<"Q"," ">>, <<"x">>}

EditInputs == {<<>>, <<" ">>, <<" ","y","o"," ">>, <<"o","k">>}

(***************************************************************************)
(* State                                                                   *)
(***************************************************************************)
VARIABLES
    pc,                \* the prompt the program is waiting at
    lists,             \* the files of LISTS_DIR, by list name
    cache,             \* CONTACTS_CACHE_FILE
    list_name,         \* party_menu's list_name
    contacts,          \* party_menu's contacts
    name,              \* `name` of create_new_list / add_contact_manually
    caller,            \* who called interactive_contact_search
    all_contacts,      \* interactive_contact_search's all_contacts
    selected_contacts, \* interactive_contact_search's selected_contacts
    matches,           \* interactive_contact_search's matches
    template,          \* send_texts_flow's template
    i,                 \* send_texts_flow's loop index (1-based)
    message,           \* send_texts_flow's message
    choice,            \* send_texts_flow's choice
    sent_count,        \* send_texts_flow's sent_count
    skipped_count,     \* send_texts_flow's skipped_count
    shown,             \* the "--- i/n ---" / "> message" block last printed
    sendLog,           \* the calls of send_imessage since the last menu choice
    out,               \* the status lines printed by the last step
    edited,            \* history: the last text typed at "New msg:" that was kept
    loadedOk,          \* history: the selected list file was readable
    lastSave,          \* history: the arguments of the last save_list
    lastFetch          \* history: the result of the last successful fetch

diskVars == <<lists, cache, lastSave, lastFetch>>

menuVars == <<list_name, contacts, loadedOk>>

searchVars == <<caller, all_contacts, selected_contacts, matches>>

sendVars == <<template, i, message, choice, sent_count, skipped_count, shown, edited>>

vars == <<pc, lists, cache, list_name, contacts, name, caller, all_contacts,
          selected_contacts, matches, template, i, message, choice, sent_count,
          skipped_count, shown, sendLog, out, edited, loadedOk, lastSave, lastFetch>>

NoShown == [i |-> 0, message |-> <<>>]

None == [some |-> FALSE]

\* the locals of a function that is not running hold their initial values
NoSearch ==
    /\ caller' = ""
    /\ all_contacts' = <<>>
    /\ selected_contacts' = <<>>
    /\ matches' = <<>>

NoSend ==
    /\ template' = <<>>
    /\ i' = 0
    /\ message' = <<>>
    /\ choice' = <<>>
    /\ sent_count' = 0
    /\ skipped_count' = 0
    /\ shown' = NoShown
    /\ edited' = <<>>

NoMenu ==
    /\ list_name' = <<>>
    /\ contacts' = <<>>
    /\ loadedOk' = FALSE

\* select_or_create_list(): its prompt when lists exist, else create_new_list's
SelectOrCreate(files) ==
    IF get_existing_lists(files) # <<>> THEN "select" ELSE "create_name"

InitDisks ==
    {[n \in ListNames |-> Missing],
     [n \in ListNames |-> IF n = <<"g","a","l","a">> THEN Corrupt ELSE Missing]}

Init ==
    /\ lists \in InitDisks
    /\ cache \in {Missing, Corrupt}
    /\ pc = SelectOrCreate(lists)
    /\ list_name = <<>>
    /\ contacts = <<>>
    /\ loadedOk = FALSE
    /\ name = <<>>
    /\ caller = ""
    /\ all_contacts = <<>>
    /\ selected_contacts = <<>>
    /\ matches = <<>>
    /\ template = <<>>
    /\ i = 0
    /\ message = <<>>
    /\ choice = <<>>
    /\ sent_count = 0
    /\ skipped_count = 0
    /\ shown = NoShown
    /\ edited = <<>>
    /\ sendLog = <<>>
    /\ out = <<>>
    /\ lastSave = None
    /\ lastFetch = None

(***************************************************************************)
(* select_or_create_list and create_new_list                               *)
(***************************************************************************)
\* history of a call fetch/get_all_contacts result r
NoteFetch(r) == lastFetch' = IF r.fetched THEN [some |-> TRUE, contacts |-> r.contacts] ELSE lastFetch

NoteSave(n, cs) == lastSave' = [some |-> TRUE, name |-> n, contacts |-> cs]

\* the answer "n" at the list prompt
SelectNew ==
    /\ pc = "select"
    /\ \E raw \in SelectInputs : Lower(Strip(raw)) = <<"n">>
    /\ pc' = "create_name"
    /\ out' = <<>>
    /\ UNCHANGED <<diskVars, menuVars, name, searchVars, sendVars, sendLog>>

\* the answer "v" at the list prompt
SelectView ==
    /\ pc = "select"
    /\ \E raw \in SelectInputs : Lower(Strip(raw)) = <<"v">>
    /\ pc' = "view"
    /\ out' = <<>>
    /\ UNCHANGED <<diskVars, menuVars, name, searchVars, sendVars, sendLog>>

\* "Enter list number to view:"; every answer leads back to the list prompt
ViewList ==
    /\ pc = "view"
    /\ \E raw \in ViewInputs :
         LET n == ParseInt(Strip(raw))
             existing == get_existing_lists(lists)
         IN out' = IF ~n.ok THEN <<"Invalid input">>
                   ELSE IF 0 <= n.val - 1 /\ n.val - 1 < Len(existing)
                   THEN <<"View list">>
                   ELSE <<"Invalid number">>
    /\ pc' = SelectOrCreate(lists)
    /\ UNCHANGED <<diskVars, menuVars, name, searchVars, sendVars, sendLog>>

\* any other answer at the list prompt: a list number, or "Invalid choice"
SelectList ==
    /\ pc = "select"
    /\ \E raw \in SelectInputs :
         LET ch == Lower(Strip(raw))
             n == ParseInt(ch)
             existing == get_existing_lists(lists)
         IN /\ ch \notin {<<"n">>, <<"v">>}
            /\ IF n.ok /\ 0 <= n.val - 1 /\ n.val - 1 < Len(existing)
               THEN /\ list_name' = existing[n.val]
                    /\ contacts' = load_list(lists, existing[n.val])
                    /\ loadedOk' = (lists[existing[n.val]].kind = "json")
                    /\ pc' = "menu"
                    /\ out' = <<"Loaded">>
               ELSE /\ pc' = SelectOrCreate(lists)
                    /\ out' = <<"Invalid choice">>
                    /\ UNCHANGED menuVars
    /\ UNCHANGED <<diskVars, name, searchVars, sendVars, sendLog>>

\* create_new_list from `all_contacts = get_all_contacts()` on, for the name nm
CreateWith(nm) ==
    \E res \in MacResults :
      LET r == get_all_contacts(cache, res, FALSE)
      IN /\ cache' = r.cache
         /\ NoteFetch(r)
         /\ IF r.contacts = <<>>
            THEN /\ lists' = save_list(lists, nm, <<>>)
                 /\ NoteSave(nm, <<>>)
                 /\ list_name' = nm
                 /\ contacts' = <<>>
                 /\ loadedOk' = TRUE
                 /\ name' = <<>>
                 /\ pc' = "menu"
                 /\ out' = r.out \o <<"No contacts found", "Created">>
                 /\ UNCHANGED searchVars
            ELSE /\ pc' = "search"
                 /\ name' = nm
                 /\ caller' = "create"
                 /\ all_contacts' = r.contacts
                 /\ selected_contacts' = <<>>
                 /\ matches' = <<>>
                 /\ out' = r.out
                 /\ UNCHANGED <<lists, lastSave, menuVars>>
         /\ UNCHANGED <<sendVars, sendLog>>

\* "Name for this party list:"
CreateName ==
    /\ pc = "create_name"
    /\ \E raw \in ListNameInputs :
         LET nm == Strip(raw)
         IN IF nm = <<>>
            THEN /\ out' = <<"Name cannot be empty">>
                 /\ UNCHANGED <<pc, diskVars, menuVars, name, searchVars, sendVars, sendLog>>
            ELSE IF \E k \in 1..Len(get_existing_lists(lists)) : get_existing_lists(lists)[k] = nm
            THEN /\ pc' = "overwrite"
                 /\ name' = nm
                 /\ out' = <<"Already exists">>
                 /\ UNCHANGED <<diskVars, menuVars, searchVars, sendVars, sendLog>>
            ELSE CreateWith(nm)

\* "Overwrite? (y/n):"
Overwrite ==
    /\ pc = "overwrite"
    /\ \E raw \in OverwriteInputs :
         IF Lower(Strip(raw)) # <<"y">>
         THEN /\ pc' = "create_name"
              /\ name' = <<>>
              /\ out' = <<>>
              /\ UNCHANGED <<diskVars, menuVars, searchVars, sendVars, sendLog>>
         ELSE CreateWith(name)

(***************************************************************************)
(* interactive_contact_search                                              *)
(***************************************************************************)
HasPhone(cs, ph) == \E k \in 1..Len(cs) : cs[k].phone = ph

RECURSIVE AddSelectedStale(_, _, _)
AddSelectedStale(selected, to_add, onEntry) ==
    IF to_add = <<>> THEN selected
    ELSE IF HasPhone(onEntry, Head(to_add).phone)
    THEN AddSelectedStale(selected, Tail(to_add), onEntry)
    ELSE AddSelectedStale(Append(selected, Head(to_add)), Tail(to_add), onEntry)

\* the add loop comparing with the list as it was before the loop
add_selected_stale(selected, to_add) == AddSelectedStale(selected, to_add, selected)

RECURSIVE add_selected(_, _)
\* "for contact in to_add": append unless the phone is already in the list
add_selected(selected, to_add) ==
    IF to_add = <<>> THEN selected
    ELSE IF HasPhone(selected, Head(to_add).phone)
    THEN add_selected(selected, Tail(to_add))
    ELSE add_selected(Append(selected, Head(to_add)), Tail(to_add))

\* [int(x.strip()) - 1 for x in selection.split(",")]: <<>> on a ValueError
RECURSIVE ParseIndices(_)
ParseIndices(parts) ==
    IF parts = <<>> THEN [ok |-> TRUE, val |-> <<>>]
    ELSE LET n == ParseInt(Strip(Head(parts)))
             rest == ParseIndices(Tail(parts))
         IN IF n.ok /\ rest.ok
            THEN [ok |-> TRUE, val |-> <<n.val - 1>> \o rest.val]
            ELSE [ok |-> FALSE]

\* [matches[i] for i in indices if 0 <= i < len(matches)]
RECURSIVE PickMatches(_, _)
PickMatches(ms, indices) ==
    IF indices = <<>> THEN <<>>
    ELSE (IF 0 <= Head(indices) /\ Head(indices) < Len(ms)
          THEN <<ms[Head(indices) + 1]>> ELSE <<>>) \o PickMatches(ms, Tail(indices))

\* the query "done": the caller saves the list and party_menu takes over
SearchDone ==
    /\ pc = "search"
    /\ \E raw \in DoneInputs : Lower(Strip(raw)) = <<"d","o","n","e">>
    /\ LET n == IF caller = "create" THEN name ELSE list_name
       IN /\ lists' = save_list(lists, n, selected_contacts)
          /\ NoteSave(n, selected_contacts)
          /\ list_name' = n
    /\ contacts' = selected_contacts
    /\ loadedOk' = IF caller = "create" THEN TRUE ELSE loadedOk
    /\ pc' = "menu"
    /\ name' = <<>>
    /\ NoSearch
    /\ out' = IF caller = "create" THEN <<"Created">> ELSE <<>>
    /\ UNCHANGED <<cache, lastFetch, sendVars, sendLog>>

\* the query "sync"
SearchSync ==
    /\ pc = "search"
    /\ \E raw \in SyncInputs : Lower(Strip(raw)) = <<"s","y","n","c">>
    /\ \E res \in MacResults :
         LET r == fetch_contacts_from_mac(cache, res)
         IN /\ all_contacts' = r.contacts
            /\ cache' = r.cache
            /\ NoteFetch(r)
            /\ out' = r.out \o (IF r.contacts # <<>> THEN <<"Contacts refreshed">> ELSE <<>>)
    /\ UNCHANGED <<pc, lists, lastSave, menuVars, name, caller, selected_contacts,
                   matches, sendVars, sendLog>>

\* a search term, or "list", an empty line or digits
SearchQuery ==
    /\ pc = "search"
    /\ \E raw \in QueryInputs :
         LET query == Strip(raw)
             found == SelectSeq(all_contacts, LAMBDA c : Contains(Lower(c.name), Lower(query)))
         IN /\ Lower(query) \notin {<<"d","o","n","e">>, <<"s","y","n","c">>}
            /\ IF Lower(query) = <<"l","i","s","t">>
                 THEN out' = <<"Current Party List">> /\ UNCHANGED <<pc, matches>>
               ELSE IF query = <<>>
                 THEN out' = <<>> /\ UNCHANGED <<pc, matches>>
               ELSE IF IsDigitStr(Remove(Remove(query, ","), " "))
                 THEN out' = <<"Enter a search term first">> /\ UNCHANGED <<pc, matches>>
               ELSE IF found = <<>>
                 THEN out' = <<"No contacts found matching">> /\ UNCHANGED <<pc, matches>>
               ELSE /\ out' = <<"Found matches">>
                    /\ matches' = found
                    /\ pc' = "search_select"
    /\ UNCHANGED <<diskVars, menuVars, name, caller, all_contacts, selected_contacts,
                   sendVars, sendLog>>

\* "Enter numbers to add (e.g., 1,3,5), 'a' for all, or press Enter"
SearchSelect ==
    /\ pc = "search_select"
    /\ \E raw \in SelectionInputs :
         LET selection == Lower(Strip(raw))
             indices == ParseIndices(SplitOn(selection, ","))
             to_add == IF selection = <<"a">> THEN matches
                       ELSE PickMatches(matches, indices.val)
         IN IF selection = <<>>
            THEN out' = <<>> /\ UNCHANGED selected_contacts
            ELSE IF selection # <<"a">> /\ ~indices.ok
            THEN out' = <<"Invalid selection">> /\ UNCHANGED selected_contacts
            ELSE /\ selected_contacts' = add_selected(selected_contacts, to_add)
                 /\ out' = IF selected_contacts' = selected_contacts
                           THEN <<"All selected contacts already in list">>
                           ELSE <<"Added">>
    /\ pc' = "search"
    /\ matches' = <<>>
    /\ UNCHANGED <<diskVars, menuVars, name, caller, all_contacts, sendVars, sendLog>>

(***************************************************************************)
(* party_menu and the list handlers                                        *)
(***************************************************************************)
\* the menu choice typed: party_menu strips it and does not change its case
MenuChoice(c) == \E raw \in MenuInputs : Strip(raw) = c

\* reading a menu choice ends the previous handler: its locals are gone and
\* the record of its send_imessage calls starts afresh
MenuStep ==
    /\ pc = "menu"
    /\ sendLog' = <<>>
    /\ NoSend
    /\ NoSearch

\* "1": view_contacts
MenuView ==
    /\ MenuStep
    /\ MenuChoice(<<"1">>)
    /\ out' = IF contacts = <<>> THEN <<"No contacts in your party list yet">>
              ELSE <<"Party Contacts">>
    /\ UNCHANGED <<pc, diskVars, menuVars, name>>

\* "2": add_more_contacts up to the search prompt
MenuAdd ==
    /\ pc = "menu"
    /\ MenuChoice(<<"2">>)
    /\ Len(contacts) < MaxContacts
    /\ sendLog' = <<>>
    /\ NoSend
    /\ \E res \in MacResults :
         LET r == get_all_contacts(cache, res, FALSE)
         IN /\ cache' = r.cache
            /\ NoteFetch(r)
            /\ IF r.contacts = <<>>
               THEN /\ out' = r.out \o <<"No contacts available">>
                    /\ NoSearch
                    /\ UNCHANGED pc
               ELSE /\ out' = r.out
                    /\ pc' = "search"
                    /\ caller' = "add"
                    /\ all_contacts' = r.contacts
                    /\ selected_contacts' = contacts
                    /\ matches' = <<>>
    /\ UNCHANGED <<lists, lastSave, menuVars, name>>

\* "3": add_contact_manually up to its first prompt
MenuManual ==
    /\ MenuStep
    /\ MenuChoice(<<"3">>)
    /\ Len(contacts) < MaxContacts
    /\ pc' = "manual_name"
    /\ out' = <<>>
    /\ UNCHANGED <<diskVars, menuVars, name>>

\* "Name:"
ManualName ==
    /\ pc = "manual_name"
    /\ \E raw \in ManualNameInputs :
         IF Strip(raw) = <<>>
         THEN /\ out' = <<"Name cannot be empty">>
              /\ pc' = "menu"
              /\ UNCHANGED name
         ELSE /\ out' = <<>>
              /\ pc' = "manual_phone"
              /\ name' = Strip(raw)
    /\ UNCHANGED <<diskVars, menuVars, searchVars, sendVars, sendLog>>

\* "Phone number:" and the append and save that follow
ManualPhone ==
    /\ pc = "manual_phone"
    /\ \E raw \in ManualPhoneInputs :
         IF Strip(raw) = <<>>
         THEN /\ out' = <<"Phone number cannot be empty">>
              /\ UNCHANGED <<diskVars, contacts>>
         ELSE /\ contacts' = Append(contacts, [name |-> name, phone |-> Strip(raw)])
              /\ lists' = save_list(lists, list_name, contacts')
              /\ NoteSave(list_name, contacts')
              /\ out' = <<"Added">>
              /\ UNCHANGED <<cache, lastFetch>>
    /\ pc' = "menu"
    /\ name' = <<>>
    /\ UNCHANGED <<list_name, loadedOk, searchVars, sendVars, sendLog>>

\* "4": remove_contact up to its prompt
MenuRemove ==
    /\ MenuStep
    /\ MenuChoice(<<"4">>)
    /\ IF contacts = <<>>
       THEN out' = <<"No contacts to remove">> /\ UNCHANGED pc
       ELSE out' = <<"Party Contacts">> /\ pc' = "remove"
    /\ UNCHANGED <<diskVars, menuVars, name>>

\* contacts.pop(index)
Pop(cs, index) == SubSeq(cs, 1, index) \o SubSeq(cs, index + 2, Len(cs))

\* remove_contact that pops without writing the file
remove_contact_unsaved(files, n, cs, raw) ==
    LET ch == Lower(Strip(raw))
        k == ParseInt(ch)
    IN IF ch = <<"c">> THEN [contacts |-> cs, files |-> files, saved |-> FALSE, out |-> <<>>]
       ELSE IF ~k.ok
       THEN [contacts |-> cs, files |-> files, saved |-> FALSE, out |-> <<"Invalid input">>]
       ELSE IF 0 <= k.val - 1 /\ k.val - 1 < Len(cs)
       THEN [contacts |-> Pop(cs, k.val - 1), files |-> files, saved |-> FALSE,
             out |-> <<"Removed">>]
       ELSE [contacts |-> cs, files |-> files, saved |-> FALSE, out |-> <<"Invalid number">>]

\* remove_contact from the answer to "Enter number to remove, or 'c' to cancel"
remove_contact(files, n, cs, raw) ==
    LET ch == Lower(Strip(raw))
        k == ParseInt(ch)
    IN IF ch = <<"c">> THEN [contacts |-> cs, files |-> files, saved |-> FALSE, out |-> <<>>]
       ELSE IF ~k.ok
       THEN [contacts |-> cs, files |-> files, saved |-> FALSE, out |-> <<"Invalid input">>]
       ELSE IF 0 <= k.val - 1 /\ k.val - 1 < Len(cs)
       THEN [contacts |-> Pop(cs, k.val - 1),
             files |-> save_list(files, n, Pop(cs, k.val - 1)), saved |-> TRUE,
             out |-> <<"Removed">>]
       ELSE [contacts |-> cs, files |-> files, saved |-> FALSE, out |-> <<"Invalid number">>]

\* the answer to remove_contact's prompt
RemoveContact ==
    /\ pc = "remove"
    /\ \E raw \in RemoveInputs :
         LET r == remove_contact(lists, list_name, contacts, raw)
         IN /\ contacts' = r.contacts
            /\ lists' = r.files
            /\ IF r.saved THEN NoteSave(list_name, r.contacts) ELSE UNCHANGED lastSave
            /\ out' = r.out
    /\ pc' = "menu"
    /\ UNCHANGED <<cache, lastFetch, list_name, loadedOk, name, searchVars, sendVars, sendLog>>

\* "5": back to select_or_create_list
MenuSwitch ==
    /\ MenuStep
    /\ MenuChoice(<<"5">>)
    /\ pc' = SelectOrCreate(lists)
    /\ NoMenu
    /\ out' = <<>>
    /\ UNCHANGED <<diskVars, name>>

\* "0": sys.exit(0)
MenuExit ==
    /\ MenuStep
    /\ MenuChoice(<<"0">>)
    /\ pc' = "exited"
    /\ out' = <<"Goodbye">>
    /\ UNCHANGED <<diskVars, menuVars, name>>

\* anything else
MenuInvalid ==
    /\ MenuStep
    /\ \E raw \in MenuInputs :
         Strip(raw) \notin {<<"1">>, <<"2">>, <<"3">>, <<"4">>, <<"5">>, <<"6">>, <<"0">>}
    /\ out' = <<"Invalid option">>
    /\ UNCHANGED <<pc, diskVars, menuVars, name>>

(***************************************************************************)
(* send_texts_flow                                                         *)
(***************************************************************************)
\* the send branch taken for everything that is not e, n or q
IsSendChoiceElse(ch) == ch \notin {<<"e">>, <<"n">>, <<"q">>}

\* `if choice == 's' or choice == ''`
IsSendChoice(ch) == ch = <<"s">> \/ ch = <<>>

\* `input("New msg: ").strip()` without the `or message`
EditMessageBlank(msg, raw) == Strip(raw)

\* `message = input("New msg: ").strip() or message`
EditMessage(msg, raw) == IF Strip(raw) # <<>> THEN Strip(raw) ELSE msg

\* a loop that does not move on after a send
SameIndex(k) == k

\* `for i, contact in enumerate(contacts, 1)`: the index after k
NextIndex(k) == k + 1

\* `except KeyError`
IsCaught(kind) == kind = "KeyError"

\* send_imessage(phone, message) returning (success, error): the call made
SendCall(k, phone, msg, success) ==
    [i |-> k, phone |-> phone, message |-> msg, success |-> success]

\* send_texts_flow returns (or the program dies): only the template typed is
\* kept, as the record of the run
EndSend(t) ==
    /\ template' = t
    /\ i' = 0
    /\ message' = <<>>
    /\ shown' = NoShown
    /\ edited' = <<>>
    /\ sent_count' = 0
    /\ skipped_count' = 0

\* the head of the for loop for entry k: draft the message and print it, or
\* leave the loop
NextContact(k, t, sc, sk) ==
    IF k > Len(contacts)
    THEN /\ pc' = "menu"
         /\ out' = <<"Done">>
         /\ EndSend(t)
    ELSE LET d == draft_message(t, contacts[k])
         IN IF d.kind = "ok"
            THEN /\ pc' = "send_choice"
                 /\ template' = t
                 /\ i' = k
                 /\ message' = d.text
                 /\ shown' = [i |-> k, message |-> d.text]
                 /\ edited' = <<>>
                 /\ sent_count' = sc
                 /\ skipped_count' = sk
                 /\ out' = <<>>
            ELSE IF IsCaught(d.kind)
            THEN /\ pc' = "menu"
                 /\ out' = <<"Invalid placeholder">>
                 /\ EndSend(t)
            ELSE /\ pc' = "crashed"
                 /\ out' = <<d.kind>>
                 /\ EndSend(t)

\* "6": send_texts_flow up to the template prompt
MenuSend ==
    /\ MenuStep
    /\ MenuChoice(<<"6">>)
    /\ IF contacts = <<>>
       THEN out' = <<"No contacts in your party list">> /\ UNCHANGED pc
       ELSE out' = <<>> /\ pc' = "template"
    /\ UNCHANGED <<diskVars, menuVars, name>>

\* the template typed, and the first contact's draft
TemplateInput ==
    /\ pc = "template"
    /\ \E raw \in TemplateInputs :
         LET t == IF Strip(raw) = <<"1">> THEN DefaultTemplate ELSE Strip(raw)
         IN IF t = <<>>
            THEN /\ pc' = "menu"
                 /\ out' = <<"Message cannot be empty">>
                 /\ EndSend(t)
            ELSE NextContact(1, t, 0, 0)
    /\ UNCHANGED <<diskVars, menuVars, name, searchVars, choice, sendLog>>

\* [Enter] or [S]: one call of send_imessage, then the next contact
SendConfirm ==
    /\ pc = "send_choice"
    /\ \E raw \in SendInputs, success \in BOOLEAN :
         /\ IsSendChoice(Lower(Strip(raw)))
         /\ choice' = Lower(Strip(raw))
         /\ sendLog' = Append(sendLog, SendCall(i, contacts[i].phone, message, success))
         /\ NextContact(NextIndex(i), template,
                        IF success THEN sent_count + 1 ELSE sent_count, skipped_count)
    /\ UNCHANGED <<diskVars, menuVars, name, searchVars>>

\* [E]: ask for the new text
SendEdit ==
    /\ pc = "send_choice"
    /\ \E raw \in SendInputs :
         /\ ~IsSendChoice(Lower(Strip(raw)))
         /\ Lower(Strip(raw)) = <<"e">>
         /\ choice' = Lower(Strip(raw))
    /\ pc' = "edit"
    /\ out' = <<>>
    /\ UNCHANGED <<diskVars, menuVars, name, searchVars, template, i, message,
                   sent_count, skipped_count, shown, edited, sendLog>>

\* "New msg:"; the prompt of the same contact follows with the message reprinted
EditInput ==
    /\ pc = "edit"
    /\ \E raw \in EditInputs :
         /\ message' = EditMessage(message, raw)
         /\ edited' = IF Strip(raw) # <<>> THEN <<raw>> ELSE edited
    /\ shown' = [i |-> i, message |-> message']
    /\ pc' = "send_choice"
    /\ out' = <<>>
    /\ UNCHANGED <<diskVars, menuVars, name, searchVars, template, i, choice,
                   sent_count, skipped_count, sendLog>>

\* [N]: skip this contact
SendNext ==
    /\ pc = "send_choice"
    /\ \E raw \in SendInputs :
         /\ ~IsSendChoice(Lower(Strip(raw)))
         /\ Lower(Strip(raw)) = <<"n">>
         /\ choice' = Lower(Strip(raw))
    /\ NextContact(NextIndex(i), template, sent_count, skipped_count + 1)
    /\ UNCHANGED <<diskVars, menuVars, name, searchVars, sendLog>>

\* [Q]: leave the flow
SendQuit ==
    /\ pc = "send_choice"
    /\ \E raw \in SendInputs :
         /\ ~IsSendChoice(Lower(Strip(raw)))
         /\ Lower(Strip(raw)) = <<"q">>
         /\ choice' = Lower(Strip(raw))
    /\ pc' = "menu"
    /\ out' = <<"Sent and skipped counts">>
    /\ EndSend(template)
    /\ UNCHANGED <<diskVars, menuVars, name, searchVars, sendLog>>

\* any other text: the same contact and message are printed again
SendOther ==
    /\ pc = "send_choice"
    /\ \E raw \in SendInputs :
         /\ ~IsSendChoice(Lower(Strip(raw)))
         /\ Lower(Strip(raw)) \notin {<<"e">>, <<"n">>, <<"q">>}
         /\ choice' = Lower(Strip(raw))
    /\ out' = <<>>
    /\ UNCHANGED <<pc, diskVars, menuVars, name, searchVars, template, i, message,
                   sent_count, skipped_count, shown, edited, sendLog>>

(***************************************************************************)
(* The program                                                             *)
(***************************************************************************)
\* select_or_create_list and create_new_list
SetupStep ==
    \/ SelectNew
    \/ SelectView
    \/ ViewList
    \/ SelectList
    \/ CreateName
    \/ Overwrite

\* interactive_contact_search
SearchStep ==
    \/ SearchDone
    \/ SearchSync
    \/ SearchQuery
    \/ SearchSelect

\* party_menu and the handlers of the list, except "5" and "6"
ListStep ==
    \/ MenuView
    \/ MenuAdd
    \/ MenuManual
    \/ ManualName
    \/ ManualPhone
    \/ MenuRemove
    \/ RemoveContact
    \/ MenuExit
    \/ MenuInvalid

\* send_texts_flow
SendStep ==
    \/ MenuSend
    \/ TemplateInput
    \/ SendConfirm
    \/ SendEdit
    \/ EditInput
    \/ SendNext
    \/ SendQuit
    \/ SendOther

Next == SetupStep \/ SearchStep \/ ListStep \/ MenuSwitch \/ SendStep

\* the whole program
Spec == Init /\ [][Next]_vars

\* a session in which the user, having chosen a list, stays with it
NextParty == SetupStep \/ SearchStep \/ ListStep \/ SendStep

\* a first run beside one unreadable list file
InitParty ==
    /\ Init
    /\ cache = Missing
    /\ lists[<<"g","a","l","a">>] = Corrupt

SpecParty == InitParty /\ [][NextParty]_vars

\* a session in which the user manages and switches lists and sends nothing
NextLists == SetupStep \/ SearchStep \/ ListStep \/ MenuSwitch

SpecLists == Init /\ [][NextLists]_vars

(***************************************************************************)
(* Properties                                                              *)
(***************************************************************************)
Range(q) == {q[k] : k \in 1..Len(q)}

IsPrefix(p, q) == Len(p) <= Len(q) /\ SubSeq(q, 1, Len(p)) = p

Last(q) == q[Len(q)]

InSendLoop == pc \in {"send_choice", "edit"}

\* C1: send_imessage is called only as the immediate result of the answer
\* "s" or an empty line (as the program reads it: stripped, lower-cased) at
\* the prompt of the contact whose message is on the screen; it is called for
\* that contact with that message, and no other answer causes a call.
C1_SendOnlyOnConfirm ==
    [][/\ Len(sendLog') > Len(sendLog) =>
            /\ pc = "send_choice"
            /\ choice' \in {<<"s">>, <<>>}
            /\ shown = [i |-> i, message |-> message]
            /\ sendLog' = Append(sendLog, Last(sendLog'))
            /\ Last(sendLog').i = shown.i
            /\ Last(sendLog').phone = contacts[shown.i].phone
            /\ Last(sendLog').message = shown.message
       /\ (pc = "send_choice" /\ choice' \notin {<<"s">>, <<>>}) =>
            Len(sendLog') = Len(sendLog)
       /\ pc # "send_choice" => Len(sendLog') <= Len(sendLog)]_vars

\* the second contact's prompt, the first message having been sent with "s"
C1_Witness ==
    /\ pc = "send_choice"
    /\ i = 2
    /\ choice = <<"s">>
    /\ Len(sendLog) = 1
    /\ sendLog[1].i = 1

\* C2: within one run of send_texts_flow the entries are taken in list order,
\* one at a time: the calls of send_imessage carry strictly increasing
\* indices (so at most one per entry, failed or not), a call is for the entry
\* at the prompt, the index moves by one only when that entry was sent or
\* skipped, and "q" ends the run without a call.
C2_Inv ==
    /\ \A a, b \in 1..Len(sendLog) : a < b => sendLog[a].i < sendLog[b].i
    /\ \A a \in 1..Len(sendLog) : sendLog[a].i \in 1..Len(contacts)
    /\ InSendLoop => (i \in 1..Len(contacts) /\ \A a \in 1..Len(sendLog) : sendLog[a].i < i)

C2_Step ==
    /\ Len(sendLog') > Len(sendLog) =>
         /\ pc = "send_choice"
         /\ Len(sendLog') = Len(sendLog) + 1
         /\ Last(sendLog').i = i
         /\ pc' = "send_choice" => i' = i + 1
    /\ (InSendLoop /\ pc' \in {"send_choice", "edit"}) =>
         /\ i' \in {i, i + 1}
         /\ i' = i + 1 => (pc = "send_choice" /\ choice' \in {<<"s">>, <<>>, <<"n">>})
    /\ (pc = "send_choice" /\ choice' = <<"q">>) =>
         (pc' = "menu" /\ sendLog' = sendLog)
    /\ pc = "menu" => sendLog' = <<>>

C2_InOrderOnce == [](C2_Inv) /\ [][C2_Step]_vars

\* a run over two entries: the first send failed, the second entry was quit
C2_Witness ==
    /\ pc = "menu"
    /\ choice = <<"q">>
    /\ Len(contacts) = 2
    /\ Len(sendLog) = 1
    /\ ~sendLog[1].success

\* C3: whenever party_menu waits for a choice, the file of list_name holds
\* exactly the in-memory contacts (given that the file was readable when the
\* list was selected).
C3_DiskMatchesMemory ==
    (pc = "menu" /\ loadedOk) =>
        /\ lists[list_name] = JsonContacts(contacts)
        /\ load_list(lists, list_name) = contacts

\* back at the menu after a removal that left one contact
C3_Witness ==
    /\ pc = "menu"
    /\ loadedOk
    /\ out = <<"Removed">>
    /\ Len(contacts) = 1

\* C4: after save_list(n, cs), load_list(n) returns exactly cs until the
\* next save, and a save leaves every other list file as it was.
C4_Inv ==
    lastSave.some =>
        /\ load_list(lists, lastSave.name) = lastSave.contacts
        /\ lists[lastSave.name] = JsonContacts(lastSave.contacts)

C4_Step ==
    (lists' # lists \/ lastSave' # lastSave) =>
        /\ lastSave'.some
        /\ \A m \in ListNames \ {lastSave'.name} : lists'[m] = lists[m]

C4_RoundTrip == [](C4_Inv) /\ [][C4_Step]_vars

\* a shorter list was saved over a longer one while another list has entries
C4_Witness ==
    /\ lastSave.some
    /\ out = <<"Removed">>
    /\ \E m \in ListNames \ {lastSave.name} :
         lists[m].kind = "json" /\ lists[m].contacts # <<>>

\* C5: get_all_contacts() fetches from the Mac exactly when there is no
\* readable cache; with a readable cache it returns the cached snapshot, an
\* empty one too, and leaves the cache alone; every successful fetch
\* overwrites the cache, so the cache (and with it a later get_all_contacts)
\* holds the result of the most recent successful fetch.
C5_Inv ==
    lastFetch.some =>
        load_cached_contacts(cache) = [some |-> TRUE, contacts |-> lastFetch.contacts]

C5_Step ==
    LET cached == load_cached_contacts(cache)
        fetching == "Syncing contacts" \in Range(out')
        serving == "Using cached contacts" \in Range(out')
    IN /\ (pc \in {"create_name", "overwrite", "menu"} /\ (fetching \/ serving)) =>
            /\ fetching <=> ~cached.some
            /\ serving <=> cached.some
            /\ serving => cache' = cache /\ lastFetch' = lastFetch
            /\ (serving /\ cached.contacts # <<>>) =>
                 (pc' = "search" /\ all_contacts' = cached.contacts)
            /\ (serving /\ cached.contacts = <<>>) =>
                 (pc' = "menu" /\ Range(out') \cap {"No contacts available", "No contacts found"} # {})
       /\ "Synced" \in Range(out') =>
            (lastFetch'.some /\ cache' = JsonContacts(lastFetch'.contacts))
       /\ cache' # cache => "Synced" \in Range(out')

C5_CacheOrFetch == [](C5_Inv) /\ [][C5_Step]_vars

\* an empty snapshot, fetched earlier, is served from the cache
C5_Witness ==
    /\ pc = "menu"
    /\ lastFetch.some
    /\ cache = JsonContacts(<<>>)
    /\ out = <<"Using cached contacts", "No contacts available">>

\* C6 as claimed: whenever contacts are served from the cache, whatever
\* their number, the program is next at the search prompt (where "sync"
\* re-fetches).
C6_CachedReachesSearch ==
    "Using cached contacts" \in Range(out) => pc = "search"

NamePlaceholder == <<"{">> \o FieldName \o <<"}">>

\* the template's only braces are those of its {name} placeholders
UsesOnlyName(tpl) ==
    \A k \in 1..Len(tpl) :
        /\ tpl[k] = "{" => (k + 5 <= Len(tpl) /\ SubSeq(tpl, k, k + 5) = NamePlaceholder)
        /\ tpl[k] = "}" => (k >= 6 /\ SubSeq(tpl, k - 5, k) = NamePlaceholder)

RECURSIVE ReplaceName(_, _)
\* tpl with each {name} replaced by first
ReplaceName(tpl, first) ==
    IF tpl = <<>> THEN <<>>
    ELSE IF Len(tpl) >= 6 /\ SubSeq(tpl, 1, 6) = NamePlaceholder
    THEN first \o ReplaceName(SubSeq(tpl, 7, Len(tpl)), first)
    ELSE <<Head(tpl)>> \o ReplaceName(Tail(tpl), first)

HasStoredFirstName(c) == "first_name" \in DOMAIN c /\ c.first_name # <<>>

\* the person's first name: the stored first_name when there is a non-empty
\* one, otherwise the first whitespace-separated word of the name
PersonFirstName(c) == IF HasStoredFirstName(c) THEN c.first_name ELSE SplitWs(c.name)[1]

\* the step prints a freshly drafted message: the first contact's, or the
\* next contact's
DraftsMessage == pc' = "send_choice" /\ (pc = "template" \/ i' # i)

\* C7: for a template whose only placeholder is {name}, the message drafted
\* for a contact is the template with each {name} replaced by the person's
\* first name, and drafting fails for no contact of the list.
C7_Step ==
    (pc \in {"template", "send_choice"} /\ UsesOnlyName(template')) =>
        /\ pc' # "crashed"
        /\ "Invalid placeholder" \notin Range(out')
        /\ DraftsMessage =>
             /\ HasStoredFirstName(contacts[i']) \/ SplitWs(contacts[i'].name) # <<>>
             /\ message' = ReplaceName(template', PersonFirstName(contacts[i']))

C8_Inv ==
    InSendLoop =>
        message = IF edited = <<>> THEN draft_message(template, contacts[i]).text
                  ELSE Strip(edited[1])

C8_Step ==
    /\ Len(sendLog') > Len(sendLog) =>
         Last(sendLog').message = IF edited = <<>>
                                  THEN draft_message(template, contacts[i]).text
                                  ELSE Strip(edited[1])
    /\ InSendLoop =>
         /\ UNCHANGED <<contacts, list_name, lists, cache>>
         /\ pc' \in {"send_choice", "edit"} => template' = template
         /\ i' # i /\ pc' = "send_choice" =>
              (edited' = <<>> /\ message' = draft_message(template, contacts[i']).text)
         /\ pc = "edit" => (i' = i /\ sendLog' = sendLog)

C8_EditIsLocal == [](C8_Inv) /\ [][C8_Step]_vars

\* the first contact was sent the edited text, the second is shown its draft
C8_Witness ==
    /\ pc = "send_choice"
    /\ i = 2
    /\ Len(sendLog) = 1
    /\ sendLog[1].message = <<"y","o">>
    /\ edited = <<>>

\* tpl has a field {...}, not an escaped brace, named other than name,
\* first_name or phone
HasOtherPlaceholder(tpl) ==
    \E a, b \in 1..Len(tpl) :
        /\ a < b
        /\ tpl[a] = "{"
        /\ tpl[b] = "}"
        /\ \A k \in (a + 1)..(b - 1) : tpl[k] \notin {"{", "}"}
        /\ (a = 1 \/ tpl[a - 1] # "{")
        /\ SubSeq(tpl, a + 1, b - 1) \notin {FieldName, FieldFirstName, FieldPhone}

\* C9 as claimed: a template with a placeholder other than {name},
\* {first_name} or {phone} is reported as "Invalid placeholder" and the
\* program is back at the party menu with no send attempt and the list and
\* the files unchanged; an empty template or an empty list ends the flow
\* with no send attempt.
C9_Step ==
    /\ (pc = "template" /\ HasOtherPlaceholder(template')) =>
         /\ pc' = "menu"
         /\ out' = <<"Invalid placeholder">>
         /\ sendLog' = <<>>
         /\ UNCHANGED <<contacts, lists, cache>>
    /\ (pc = "template" /\ template' = <<>>) => (pc' = "menu" /\ sendLog' = <<>>)
    /\ (pc = "menu" /\ contacts = <<>>) => pc' # "template"

C9_InvalidPlaceholderReported == [][C9_Step]_vars

Distinct(cs) == \A a, b \in 1..Len(cs) : a # b => cs[a].phone # cs[b].phone

\* C10: interactive_contact_search only appends to the selected list, and
\* never a contact whose phone is the phone of an entry already in it; a
\* list with pairwise distinct phones on entry has them on return.
C10_Step ==
    LET now == selected_contacts
        after == IF pc' = "menu" THEN contacts' ELSE selected_contacts'
    IN pc \in {"search", "search_select"} =>
         /\ IsPrefix(now, after)
         /\ \A k \in (Len(now) + 1)..Len(after) :
               \A j \in 1..(k - 1) : after[j].phone # after[k].phone
         /\ Distinct(now) => Distinct(after)

C10_SearchAddsNoKnownPhone == [][C10_Step]_vars

\* a selection was made of matches whose phone is already in the list
C10_Witness ==
    /\ pc = "search"
    /\ out = <<"All selected contacts already in list">>
    /\ selected_contacts # <<>>

=============================================================================
